---------------------------- MODULE Spec2Model ----------------------------
(***************************************************************************)
(* Reservoir controller: risk classification (src/risk_engine.py), release *)
(* heuristic and its effect simulation (src/optimization_engine.py), the   *)
(* evaluation metrics (src/evaluation.py) and the dashboard's storage      *)
(* projection (app/dashboard.py).                                          *)
(*                                                                         *)
(* Numbers.  The code computes on floats; the model computes on decimal    *)
(* fixed point, exactly:                                                   *)
(*   - storage, predictions, thresholds and rainfall are in millionths     *)
(*     (95 % is 95 * Micro);                                               *)
(*   - inflow and release are in thousandths of a flow unit, so that the   *)
(*     code's  x / 1000  (flow units to storage percent) is the identity   *)
(*     on the integers: 1 thousandth of a flow unit = 1 millionth percent; *)
(*   - a value returned by round(x, 2) that is a percentage (a score, an   *)
(*     accuracy) is in hundredths: 100.0 is 100 * Centi.                   *)
(* round(x, 2) is rounding to the nearest hundredth.  On an exact tie the  *)
(* float result depends on the binary representation of x, so the model    *)
(* leaves the direction of a tie open (parameter tie: 0 down, 1 up).       *)
(*                                                                         *)
(* Datasets.  A dataset, and every list computed row by row from it, is    *)
(* held run-length encoded: an entry with n = k stands for k consecutive   *)
(* equal rows (equal list elements), so that files of tens of thousands of *)
(* rows are states of the model.  len and overflow_count count rows, not   *)
(* entries.                                                                *)
(*                                                                         *)
(* Scripts.  The preprocessing (src/data_preprocessing.py), training       *)
(* (src/model_training.py), optimization and risk detection scripts are    *)
(* processes that communicate through three files: the raw CSV, the        *)
(* processed CSV and the pickled model.  A table of the preprocessing      *)
(* script is a sequence of rows, one record per row, in the CSV's own      *)
(* numbers; a cell is [nan, v], nan for a missing value (NaN).  A column   *)
(* name is a sequence of one-character strings.                            *)
(***************************************************************************)
EXTENDS Integers, Sequences, FiniteSets, TLC

Micro == 1000 * 1000
Centi == 10 * 10

\* Bounds of the model.
MaxRows == 2
BulkCount == 20000
MaxDays == 3
MaxRaw == 3
MaxTrainRows == 7

VARIABLES
    df,            \* the processed dataset: a sequence of rows (run-length encoded)
    predictions,   \* model.predict(X) for the rows of df, in order (run-length encoded)
    accOut,        \* evaluation.risk_detection_accuracy: its last result
    evalOut,       \* evaluation.decision_effectiveness: its last result
    optOut,        \* optimization_engine.run_optimization: its last result
    riskLast,      \* risk_engine.classify_risk: the latest call
    riskPrev,      \* risk_engine.classify_risk: the call before it
    matrixOut,     \* dashboard risk_matrix: the latest entry built
    recOut,        \* optimization_engine.recommend_release: the latest call
    projPc,        \* dashboard.simulate_storage_projection: "idle", "loop", "returned"
    projStart,     \* its argument current_storage
    projRelease,   \* its argument release_rate
    projInflow,    \* the elements of its argument inflow consumed so far
    projStorage,   \* its local variable storage
    projHistory,   \* its local variable storage_history
    projAlerts,    \* dashboard: days_to_full, days_to_critical_high,
                   \* days_to_critical_low and the third predictive alert
    rawFile,       \* data/raw/reservoir_data.csv
    processedFile, \* data/processed/clean_reservoir_data.csv
    modelFile,     \* models/reservoir_model.pkl
    pipePc,        \* data_preprocessing.run_pipeline: the statement reached
    pipeErr,       \* the exception that ended it, or "none"
    pipeDf,        \* its local variable df
    pipeCleaned,   \* the table clean_data returned to it
    trainPc,       \* model_training.run_training_pipeline: the statement reached
    trainErr,      \* the exception that ended it, or "none"
    trainDf,       \* its local variable df
    trainSplit,    \* train_model: the row labels of X_train and X_test
    optPc,         \* optimization_engine.run_optimization: the statement reached
    optErr,        \* the exception that ended it, or "none"
    riskPc,        \* risk_engine.run_risk_detection: the statement reached
    riskErr        \* the exception that ended it, or "none"

vars == <<df, predictions, accOut, evalOut, optOut, riskLast, riskPrev, matrixOut,
          recOut, projPc, projStart, projRelease, projInflow, projStorage, projHistory,
          projAlerts, rawFile, processedFile, modelFile, pipePc, pipeErr, pipeDf, pipeCleaned,
          trainPc, trainErr, trainDf, trainSplit, optPc, optErr, riskPc, riskErr>>

evalVars == <<df, predictions, accOut, evalOut, optOut>>
riskVars == <<riskLast, riskPrev, matrixOut>>
projVars == <<projPc, projStart, projRelease, projInflow, projStorage, projHistory,
              projAlerts>>
fileVars == <<rawFile, processedFile, modelFile>>
pipeVars == <<pipePc, pipeErr, pipeDf, pipeCleaned>>
trainVars == <<trainPc, trainErr, trainDf, trainSplit>>
runVars == <<optPc, optErr, riskPc, riskErr>>
scriptVars == <<fileVars, pipeVars, trainVars, runVars>>

---------------------------------------------------------------------------
\* Pure functions of the code.

\* Python's round(x, 2) on x = num / den hundredths (den > 0): the nearest
\* integer number of hundredths; a tie goes down (tie = 0) or up (tie = 1).
round2(num, den, tie) ==
    LET q == num \div den
        r == num % den
    IN  IF 2 * r < den THEN q
        ELSE IF 2 * r > den THEN q + 1
        ELSE q + tie

max2(a, b) == IF a >= b THEN a ELSE b
min2(a, b) == IF a <= b THEN a ELSE b

\* Mutant: the upper bound of the clamp is lost.
clamp_no_upper(x) == max2(0, x)

\* max(0, min(100, x)), the clamp of both step simulations.
clamp(x) == max2(0, min2(100 * Micro, x))

\* Mutant: the rainfall comparison of the drought rule is inverted.
classify_risk_wet_drought(predicted_storage, rainfall) ==
    IF predicted_storage > 95 * Micro THEN "FLOOD RISK"
    ELSE IF predicted_storage < 25 * Micro /\ rainfall > 5 * Micro THEN "DROUGHT RISK"
    ELSE "SAFE"

\* Mutant: the flood threshold is inclusive.
classify_risk_flood_at_95(predicted_storage, rainfall) ==
    IF predicted_storage >= 95 * Micro THEN "FLOOD RISK"
    ELSE IF predicted_storage < 25 * Micro /\ rainfall < 5 * Micro THEN "DROUGHT RISK"
    ELSE "SAFE"

\* Mutant: the drought rule takes either condition.
classify_risk_drought_or(predicted_storage, rainfall) ==
    IF predicted_storage > 95 * Micro THEN "FLOOD RISK"
    ELSE IF predicted_storage < 25 * Micro \/ rainfall < 5 * Micro THEN "DROUGHT RISK"
    ELSE "SAFE"

\* risk_engine.classify_risk
classify_risk(predicted_storage, rainfall) ==
    IF predicted_storage > 95 * Micro THEN "FLOOD RISK"
    ELSE IF predicted_storage < 25 * Micro /\ rainfall < 5 * Micro THEN "DROUGHT RISK"
    ELSE "SAFE"

\* dashboard.py, the 'Overflow Risk' entry of a risk_matrix row
overflow_risk(level) ==
    IF level > 95 * Micro THEN "CRITICAL"
    ELSE IF level > 85 * Micro THEN "HIGH"
    ELSE "MODERATE"

\* Mutant: the top tier doubles the release.
release_factor_double(predicted_storage) ==
    IF predicted_storage > 95 * Micro THEN 20
    ELSE IF predicted_storage > 80 * Micro THEN 12
    ELSE IF predicted_storage >= 60 * Micro THEN 10
    ELSE IF predicted_storage >= 40 * Micro THEN 8
    ELSE 6

\* Mutant: the 1.2 tier starts at 80.
release_factor_tier_at_80(predicted_storage) ==
    IF predicted_storage > 95 * Micro THEN 15
    ELSE IF predicted_storage >= 80 * Micro THEN 12
    ELSE IF predicted_storage >= 60 * Micro THEN 10
    ELSE IF predicted_storage >= 40 * Micro THEN 8
    ELSE 6

\* optimization_engine.recommend_release: the multiplier, in tenths
release_factor(predicted_storage) ==
    IF predicted_storage > 95 * Micro THEN 15
    ELSE IF predicted_storage > 80 * Micro THEN 12
    ELSE IF predicted_storage >= 60 * Micro THEN 10
    ELSE IF predicted_storage >= 40 * Micro THEN 8
    ELSE 6

\* optimization_engine.recommend_release: round(current_release * factor, 2).
\* current_release is in thousandths, so the product in hundredths is
\* current_release * factor / 100; the result is again in thousandths.
recommend_release(predicted_storage, current_release, tie) ==
    10 * round2(current_release * release_factor(predicted_storage), 100, tie)

\* The step formula shared by both simulations over the dataset:
\* storage + inflow / 1000 - new_release / 1000 - 0.15
step_storage(row, new_release) ==
    row.storage + row.inflow - new_release - (15 * Micro) \div 100

\* The sum of the run lengths of the entries S of the list xs.
RECURSIVE run_sum(_, _)
run_sum(S, xs) ==
    IF S = {} THEN 0
    ELSE LET i == CHOOSE j \in S : TRUE
         IN  xs[i].n + run_sum(S \ {i}, xs)

\* len(df): the number of rows
len(xs) == run_sum(DOMAIN xs, xs)

\* The number of elements of a list above 95: sum(1 for x in xs if x > 95)
overflow_count(xs) == run_sum({i \in DOMAIN xs : xs[i].v > 95 * Micro}, xs)

\* optimization_engine.simulate_decision_effect, the body of its loop for
\* one row: the pair (new_release, adjusted_storage)
simulate_row(row, predicted_storage, tie) ==
    LET new_release == recommend_release(predicted_storage, row.release, tie)
    IN  [new_release |-> new_release,
         adjusted_storage |-> clamp(step_storage(row, new_release))]

\* optimization_engine.simulate_decision_effect: (baseline, optimized), and
\* the list optimized_release_values it builds on the way.
simulate_decision_effect(d, preds, tie) ==
    [baseline  |-> preds,
     release   |-> [i \in DOMAIN d |->
                      [v |-> simulate_row(d[i], preds[i].v, tie).new_release,
                       n |-> d[i].n]],
     optimized |-> [i \in DOMAIN d |->
                      [v |-> simulate_row(d[i], preds[i].v, tie).adjusted_storage,
                       n |-> d[i].n]]]

\* optimization_engine.calculate_effectiveness, from its two counts: the
\* early return of 100, else round(reduction, 2)
effectiveness_score(baseline_overflow, optimized_overflow, tie) ==
    IF baseline_overflow = 0 THEN 100 * Centi
    ELSE round2((baseline_overflow - optimized_overflow) * 100 * Centi,
                baseline_overflow, tie)

\* optimization_engine.calculate_effectiveness.  divided records whether the
\* division by baseline_overflow was executed.
calculate_effectiveness(baseline, optimized, tie) ==
    [baseline_overflow |-> overflow_count(baseline),
     optimized_overflow |-> overflow_count(optimized),
     divided |-> overflow_count(baseline) # 0,
     score |-> effectiveness_score(overflow_count(baseline),
                                   overflow_count(optimized), tie)]

\* Mutant: the release is scaled from 95 on.
eval_new_release_at_95(predicted, release) ==
    IF predicted >= 95 * Micro THEN (release * 15) \div 10 ELSE release

\* evaluation.decision_effectiveness, the release of one row:
\* release * 1.5 if predicted > 95, else release
eval_new_release(predicted, release) ==
    IF predicted > 95 * Micro THEN (release * 15) \div 10 ELSE release

\* Mutant: the baseline is the storage simulated under the unadjusted release.
eval_baseline_simulated(d, preds) ==
    [i \in DOMAIN d |-> [v |-> step_storage(d[i], d[i].release), n |-> d[i].n]]

\* evaluation.decision_effectiveness, the list baseline whose elements above
\* 95 are counted as baseline_overflow: baseline = model.predict(X)
eval_baseline(d, preds) == preds

\* Mutant: an empty baseline scores 0.
eval_score_zero(baseline_overflow, optimized_overflow, tie) ==
    IF baseline_overflow = 0 THEN 0
    ELSE round2((baseline_overflow - optimized_overflow) * 100 * Centi,
                baseline_overflow, tie)

\* evaluation.decision_effectiveness, the return statement: the early return
\* of 100, else round(reduction, 2)
eval_score(baseline_overflow, optimized_overflow, tie) ==
    IF baseline_overflow = 0 THEN 100 * Centi
    ELSE round2((baseline_overflow - optimized_overflow) * 100 * Centi,
                baseline_overflow, tie)

\* evaluation.decision_effectiveness
decision_effectiveness(d, preds, tie) ==
    LET release == [i \in DOMAIN d |->
                      [v |-> eval_new_release(preds[i].v, d[i].release), n |-> d[i].n]]
        optimized == [i \in DOMAIN d |->
                      [v |-> step_storage(d[i], release[i].v), n |-> d[i].n]]
        baseline_overflow == overflow_count(eval_baseline(d, preds))
        optimized_overflow == overflow_count(optimized)
    IN  [release |-> release,
         optimized |-> optimized,
         baseline_overflow |-> baseline_overflow,
         optimized_overflow |-> optimized_overflow,
         divided |-> baseline_overflow # 0,
         score |-> eval_score(baseline_overflow, optimized_overflow, tie)]

\* Mutant: the predicted flag is raised from 95 on.
flags_agree_at_95(actual, predicted) ==
    (actual > 95 * Micro) = (predicted >= 95 * Micro)

\* evaluation.risk_detection_accuracy: actual_flood == predicted_flood, for one row
flags_agree(actual, predicted) ==
    (actual > 95 * Micro) = (predicted > 95 * Micro)

\* evaluation.risk_detection_accuracy
risk_detection_accuracy(d, preds, tie) ==
    LET correct == run_sum({i \in DOMAIN d :
                        flags_agree(d[i].next_day_storage, preds[i].v)}, d)
    IN  [correct |-> correct,
         accuracy |-> round2(correct * 100 * Centi, len(d), tie)]

\* dashboard.simulate_storage_projection, one iteration of its loop
projection_step(storage, daily_inflow, release_rate) ==
    clamp(storage + daily_inflow - release_rate - (15 * Micro) \div 100)

\* The values calculate_days_to_threshold returns: None, or a number of days.
None == [defined |-> FALSE]
days(i) == [defined |-> TRUE, v |-> i]

\* if x:  on such a value: None and 0 are false.
truthy(x) == x.defined /\ x.v # 0

\* Mutant: the comparison with the threshold is strict.
calculate_days_to_threshold_strict(storage_history, threshold) ==
    LET reached == {i \in DOMAIN storage_history : storage_history[i] > threshold}
    IN  IF reached = {} THEN None
        ELSE days(CHOOSE i \in reached : \A j \in reached : i <= j)

\* dashboard.calculate_days_to_threshold: i + 1 for the first value >= threshold
\* (DOMAIN is 1-based: position i here is index i - 1 of the list).
calculate_days_to_threshold(storage_history, threshold) ==
    LET reached == {i \in DOMAIN storage_history : storage_history[i] >= threshold}
    IN  IF reached = {} THEN None
        ELSE days(CHOOSE i \in reached : \A j \in reached : i <= j)

---------------------------------------------------------------------------
\* Inputs.

\* The rows a dataset is built from, for the effectiveness scores.  release
\* is a two-decimal quantity (a multiple of 10 thousandths).
EvalRows == [inflow : {0, 600 * 1000}, rainfall : {10 * Micro},
             storage : {0, (975 * Micro) \div 10, 100 * Micro},
             release : {10, 2000 * 1000}, next_day_storage : {96 * Micro}, n : {1}]

\* The rows a dataset is built from, for the risk detection accuracy: single
\* rows and long runs of equal rows.
AccRows == [inflow : {600 * 1000}, rainfall : {10 * Micro},
            storage : {50 * Micro, 97 * Micro},
            release : {400 * 1000}, next_day_storage : {95 * Micro, 96 * Micro},
            n : {1, 2, BulkCount}]

\* The model's predictions.
PredVals == {95 * Micro, 96 * Micro}

\* X = df[["inflow", "rainfall", "storage", "release"]]
features(row) == <<row.inflow, row.rainfall, row.storage, row.release>>

Ties == {0, 1}

\* Arguments of classify_risk.
RiskStorage == {0, 20 * Micro, 25 * Micro - 1, 25 * Micro, 60 * Micro, 85 * Micro,
                85 * Micro + 1, 90 * Micro, 95 * Micro, 95 * Micro + 1, 96 * Micro,
                100 * Micro}
RiskRainfall == {0, 5 * Micro - 1, 5 * Micro, 10 * Micro, 50 * Micro}

\* dashboard.py: dams, the levels the risk matrix is built from
DamLevels == {78 * Micro, 62 * Micro, 91 * Micro, 45 * Micro}

\* Arguments of recommend_release.
RecStorage == {0, 40 * Micro - 1, 40 * Micro, 60 * Micro - 1, 60 * Micro, 80 * Micro,
               80 * Micro + 1, 95 * Micro, 95 * Micro + 1, 96 * Micro, 100 * Micro}
RecRelease == {0, 4, 6, 10, 30, 50, 1000, 66660, 66670, 100 * 1000, 600 * 1000,
               612347}

\* Arguments of simulate_storage_projection.
ProjStart == {0, 50 * Micro, (999 * Micro) \div 10, 120 * Micro}
ProjRelease == {0, 400 * 1000, 5000 * 1000}
ProjInflow == {0, 600 * 1000, 900 * 1000}

---------------------------------------------------------------------------
\* The state machine.

\* No script has run.
InitProcesses ==
    /\ pipePc = "start" /\ pipeErr = "none"
    /\ pipeDf = [cols |-> << >>, rows |-> << >>] /\ pipeCleaned = << >>
    /\ trainPc = "start" /\ trainErr = "none" /\ trainDf = << >>
    /\ trainSplit = [train |-> << >>, test |-> << >>]
    /\ optPc = "start" /\ optErr = "none"
    /\ riskPc = "start" /\ riskErr = "none"

\* No dataset is loaded and no function has been called.
InitResults ==
    /\ df = << >>
    /\ predictions = << >>
    /\ accOut = [done |-> FALSE]
    /\ evalOut = [done |-> FALSE]
    /\ optOut = [done |-> FALSE]
    /\ riskLast = [done |-> FALSE]
    /\ riskPrev = [done |-> FALSE]
    /\ matrixOut = [done |-> FALSE]
    /\ recOut = [done |-> FALSE]
    /\ projPc = "idle"
    /\ projStart = 0
    /\ projRelease = 0
    /\ projInflow = << >>
    /\ projStorage = 0
    /\ projHistory = << >>
    /\ projAlerts = [done |-> FALSE]

\* No file exists.
InitFiles ==
    /\ rawFile = [exists |-> FALSE]
    /\ processedFile = [exists |-> FALSE]
    /\ modelFile = [exists |-> FALSE]

Init == InitResults /\ InitProcesses /\ InitFiles

\* load_data, one more run of equal rows of the processed CSV, with the trained
\* model's prediction for them.  The model is a function of the features: rows with
\* equal features get equal predictions.  The scripts and the dashboard are
\* separate processes, and a run is a run of one of them: no dataset is loaded
\* in a dashboard run.
LoadRow(row, p) ==
    /\ projPc = "idle"
    /\ Len(df) < MaxRows
    /\ ~accOut.done /\ ~evalOut.done /\ ~optOut.done
    /\ \A i \in DOMAIN df : features(df[i]) = features(row) => predictions[i].v = p
    /\ df' = Append(df, row)
    /\ predictions' = Append(predictions, [v |-> p, n |-> row.n])
    /\ UNCHANGED <<accOut, evalOut, optOut, riskVars, recOut, projVars,
                 scriptVars>>

\* evaluation.run_evaluation: risk_acc = risk_detection_accuracy(model, df)
RiskDetectionAccuracy(tie) ==
    /\ Len(df) >= 1
    /\ ~accOut.done
    /\ LET r == risk_detection_accuracy(df, predictions, tie)
       IN  accOut' = [done |-> TRUE, correct |-> r.correct, accuracy |-> r.accuracy]
    /\ UNCHANGED <<df, predictions, evalOut, optOut, riskVars, recOut, projVars,
                 scriptVars>>

\* evaluation.run_evaluation: decision_score = decision_effectiveness(model, df)
DecisionEffectiveness(tie) ==
    /\ Len(df) >= 1
    /\ ~evalOut.done
    /\ LET r == decision_effectiveness(df, predictions, tie)
       IN  evalOut' = [done |-> TRUE, release |-> r.release, optimized |-> r.optimized,
                       baseline_overflow |-> r.baseline_overflow,
                       optimized_overflow |-> r.optimized_overflow,
                       divided |-> r.divided, score |-> r.score]
    /\ UNCHANGED <<df, predictions, accOut, optOut, riskVars, recOut, projVars,
                 scriptVars>>

\* optimization_engine.run_optimization: simulate_decision_effect, then
\* calculate_effectiveness on what it returns.
RunOptimization(tie1, tie2) ==
    /\ Len(df) >= 1
    /\ ~optOut.done
    /\ LET s == simulate_decision_effect(df, predictions, tie1)
           e == calculate_effectiveness(s.baseline, s.optimized, tie2)
       IN  optOut' = [done |-> TRUE, baseline |-> s.baseline, release |-> s.release,
                      optimized |-> s.optimized,
                      baseline_overflow |-> e.baseline_overflow,
                      optimized_overflow |-> e.optimized_overflow,
                      divided |-> e.divided, score |-> e.score]
    /\ UNCHANGED <<df, predictions, accOut, evalOut, riskVars, recOut, projVars,
                 scriptVars>>

\* A call of risk_engine.classify_risk.
ClassifyRisk(predicted_storage, rainfall) ==
    /\ riskPrev' = riskLast
    /\ riskLast' = [done |-> TRUE, predicted_storage |-> predicted_storage,
                    rainfall |-> rainfall,
                    risk |-> classify_risk(predicted_storage, rainfall)]
    /\ UNCHANGED <<evalVars, matrixOut, recOut, projVars,
                 scriptVars>>

\* dashboard.py: one entry of risk_matrix.
RiskMatrix(level) ==
    /\ matrixOut' = [done |-> TRUE, level |-> level, overflow |-> overflow_risk(level)]
    /\ UNCHANGED <<evalVars, riskLast, riskPrev, recOut, projVars,
                 scriptVars>>

\* A call of optimization_engine.recommend_release.
RecommendRelease(predicted_storage, current_release, tie) ==
    /\ recOut' = [done |-> TRUE, predicted_storage |-> predicted_storage,
                  current_release |-> current_release, tie |-> tie,
                  new_release |-> recommend_release(predicted_storage, current_release, tie)]
    /\ UNCHANGED <<evalVars, riskVars, projVars,
                 scriptVars>>

\* dashboard.simulate_storage_projection: entry (in a dashboard run: no
\* dataset is loaded).
StartProjection(current_storage, release_rate) ==
    /\ df = << >>
    /\ projPc = "idle"
    /\ projPc' = "loop"
    /\ projStart' = current_storage
    /\ projRelease' = release_rate
    /\ projStorage' = current_storage
    /\ projInflow' = << >>
    /\ projHistory' = << >>
    /\ UNCHANGED <<projAlerts, evalVars, riskVars, recOut,
                 scriptVars>>

\* dashboard.simulate_storage_projection: one iteration of  for daily_inflow in inflow.
ProjectionStep(daily_inflow) ==
    /\ projPc = "loop"
    /\ Len(projHistory) < MaxDays
    /\ projStorage' = projection_step(projStorage, daily_inflow, projRelease)
    /\ projHistory' = Append(projHistory, projStorage')
    /\ projInflow' = Append(projInflow, daily_inflow)
    /\ UNCHANGED <<projPc, projStart, projRelease, projAlerts, evalVars, riskVars, recOut,
                 scriptVars>>

\* dashboard.simulate_storage_projection: inflow is exhausted, return storage_history.
ReturnProjection ==
    /\ projPc = "loop"
    /\ projPc' = "returned"
    /\ UNCHANGED <<projStart, projRelease, projInflow, projStorage, projHistory,
                   projAlerts, evalVars, riskVars, recOut,
                 scriptVars>>

\* dashboard.py: the three calls of calculate_days_to_threshold on the
\* projection, and the third predictive alert (alert_cols[2]).
PredictiveAlerts ==
    /\ projPc = "returned"
    /\ projPc' = "alerts"
    /\ LET days_to_critical_low == calculate_days_to_threshold(projHistory, 20 * Micro)
       IN  projAlerts' =
               [done |-> TRUE,
                days_to_full |-> calculate_days_to_threshold(projHistory, 100 * Micro),
                days_to_critical_high |-> calculate_days_to_threshold(projHistory, 95 * Micro),
                days_to_critical_low |-> days_to_critical_low,
                low_alert |-> IF truthy(days_to_critical_low)
                              THEN "CRITICAL LOW" ELSE "Low levels unlikely"]
    /\ UNCHANGED <<projStart, projRelease, projInflow, projStorage, projHistory,
                   evalVars, riskVars, recOut, scriptVars>>

\* optimization_engine.run_optimization and evaluation.decision_effectiveness
\* over a loaded dataset, and the dashboard's projection.
Next ==
    \/ \E row \in EvalRows, p \in PredVals : LoadRow(row, p)
    \/ \E tie \in Ties : DecisionEffectiveness(tie)
    \/ \E tie1 \in Ties, tie2 \in Ties : RunOptimization(tie1, tie2)
    \/ \E s \in ProjStart, r \in ProjRelease : StartProjection(s, r)
    \/ \E f \in ProjInflow : ProjectionStep(f)
    \/ ReturnProjection
    \/ PredictiveAlerts

Spec == Init /\ [][Next]_vars

\* evaluation.risk_detection_accuracy over a loaded dataset.
NextAccuracy ==
    \/ \E row \in AccRows, p \in PredVals : LoadRow(row, p)
    \/ \E tie \in Ties : RiskDetectionAccuracy(tie)

SpecAccuracy == Init /\ [][NextAccuracy]_vars

\* The risk classifiers.
NextRisk ==
    \/ \E s \in RiskStorage, r \in RiskRainfall : ClassifyRisk(s, r)
    \/ \E level \in DamLevels : RiskMatrix(level)

SpecRisk == Init /\ [][NextRisk]_vars

\* The release heuristic.
NextRelease ==
    \E p \in RecStorage, c \in RecRelease, tie \in Ties : RecommendRelease(p, c, tie)

SpecRelease == Init /\ [][NextRelease]_vars

---------------------------------------------------------------------------
\* The preprocessing script (src/data_preprocessing.py).

\* A present value and a missing value (NaN) of a numeric column.
cell(x) == [nan |-> FALSE, v |-> x]
NaN == [nan |-> TRUE, v |-> 0]

\* The column names of clean_data's required_columns.
date_col == <<"d", "a", "t", "e">>
inflow_col == <<"i", "n", "f", "l", "o", "w">>
rainfall_col == <<"r", "a", "i", "n", "f", "a", "l", "l">>
storage_col == <<"s", "t", "o", "r", "a", "g", "e">>
release_col == <<"r", "e", "l", "e", "a", "s", "e">>
target_col == <<"n", "e", "x", "t", "_", "d", "a", "y", "_",
                "s", "t", "o", "r", "a", "g", "e">>

\* str.strip(): leading and trailing whitespace is removed.
Whitespace == {" ", "\t"}

RECURSIVE lstrip(_)
lstrip(s) == IF s # << >> /\ Head(s) \in Whitespace THEN lstrip(Tail(s)) ELSE s

RECURSIVE rstrip(_)
rstrip(s) ==
    IF s # << >> /\ s[Len(s)] \in Whitespace THEN rstrip(SubSeq(s, 1, Len(s) - 1)) ELSE s

strip(s) == rstrip(lstrip(s))

\* str.lower(): every cased character is replaced by its lower-case form.
Uppercase == <<"A", "B", "C", "D", "E", "F", "G", "H", "I", "J", "K", "L", "M",
               "N", "O", "P", "Q", "R", "S", "T", "U", "V", "W", "X", "Y", "Z">>
Lowercase == <<"a", "b", "c", "d", "e", "f", "g", "h", "i", "j", "k", "l", "m",
               "n", "o", "p", "q", "r", "s", "t", "u", "v", "w", "x", "y", "z">>

lower_char(c) ==
    IF \E i \in DOMAIN Uppercase : Uppercase[i] = c
    THEN Lowercase[CHOOSE i \in DOMAIN Uppercase : Uppercase[i] = c]
    ELSE c

lower(s) == [i \in DOMAIN s |-> lower_char(s[i])]

\* clean_data: df.columns = df.columns.str.strip().str.lower()
standardize_columns(cols) == [i \in DOMAIN cols |-> lower(strip(cols[i]))]

\* Mutant: release is not required.
required_columns_without_release == <<date_col, inflow_col, rainfall_col, storage_col>>

\* clean_data: required_columns
required_columns == <<date_col, inflow_col, rainfall_col, storage_col, release_col>>

\* clean_data: the required columns for which  col not in df.columns  holds
missing_columns(cols) ==
    {required_columns[k] : k \in {j \in DOMAIN required_columns :
                                     \A i \in DOMAIN cols : cols[i] # required_columns[j]}}

\* pd.read_csv: the rows of the file, labelled 0, 1, ... (the RangeIndex).
read_csv(file) ==
    [cols |-> file.cols,
     rows |-> [i \in DOMAIN file.rows |->
                 [index |-> i - 1, date |-> file.rows[i].date,
                  inflow |-> file.rows[i].inflow, rainfall |-> file.rows[i].rainfall,
                  storage |-> file.rows[i].storage, release |-> file.rows[i].release]]]

\* The values of a row: its columns, without its label.
values(r) == <<r.date, r.inflow, r.rainfall, r.storage, r.release>>

\* df.sort_values("date"): the rows in non-decreasing date order.  The default
\* sort (quicksort) is not stable: rows of equal date come out in an order that
\* depends on the input order and on the build, so every order of them is possible.
sort_values(rows) ==
    LET n == Len(rows)
        sorted(f) == /\ \A i, j \in 1..n : i # j => f[i] # f[j]
                     /\ \A i \in 1..(n - 1) : rows[f[i]].date <= rows[f[i + 1]].date
    IN  {[i \in 1..n |-> rows[f[i]]] : f \in {g \in [1..n -> 1..n] : sorted(g)}}

\* df.drop_duplicates(): a row is dropped when an earlier row has the same value
\* in every column (keep="first"; missing values compare equal).
RECURSIVE drop_duplicates(_)
drop_duplicates(rows) ==
    IF rows = << >> THEN << >>
    ELSE LET n == Len(rows)
             front == drop_duplicates(SubSeq(rows, 1, n - 1))
         IN  IF \E i \in 1..(n - 1) : values(rows[i]) = values(rows[n])
             THEN front
             ELSE Append(front, rows[n])

\* ffill of one cell: a missing value takes the value of the row above.
fill(above, c) == IF c.nan THEN above ELSE c

\* df.fillna(method="ffill"): column by column, top to bottom; a missing value
\* with no present value above it stays missing.
RECURSIVE ffill(_)
ffill(rows) ==
    IF Len(rows) <= 1 THEN rows
    ELSE LET n == Len(rows)
             front == ffill(SubSeq(rows, 1, n - 1))
             above == front[n - 1]
         IN  Append(front, [rows[n] EXCEPT !.inflow = fill(above.inflow, @),
                                           !.rainfall = fill(above.rainfall, @),
                                           !.storage = fill(above.storage, @),
                                           !.release = fill(above.release, @)])

\* x >= 0 on a column: False on a missing value.
ge0(c) == ~c.nan /\ c.v >= 0

storage_ge0(r) == ge0(r.storage)
inflow_ge0(r) == ge0(r.inflow)
release_ge0(r) == ge0(r.release)

\* clean_data: df[df["storage"] >= 0], then inflow, then release
remove_unrealistic(rows) ==
    SelectSeq(SelectSeq(SelectSeq(rows, storage_ge0), inflow_ge0), release_ge0)

\* clean_data on a table that has the required columns: the tables it can return.
clean_data(rows) ==
    {remove_unrealistic(ffill(drop_duplicates(s))) : s \in sort_values(rows)}

\* Mutant: the target is the storage two rows below.
shift_storage_two(rows, i) == IF i + 1 < Len(rows) THEN rows[i + 2].storage ELSE NaN

\* df["storage"].shift(-1) at position i: the storage of the next row, missing
\* for the last row.
shift_storage(rows, i) == IF i < Len(rows) THEN rows[i + 1].storage ELSE NaN

\* A row has a missing value.
isna(r) ==
    r.inflow.nan \/ r.rainfall.nan \/ r.storage.nan \/ r.release.nan
        \/ r.next_day_storage.nan

notna(r) == ~isna(r)

\* feature_engineering: the column next_day_storage is added, then df.dropna()
\* drops every row that has a missing value in any column.
feature_engineering(rows) ==
    SelectSeq([i \in DOMAIN rows |->
                 [index |-> rows[i].index, date |-> rows[i].date,
                  inflow |-> rows[i].inflow, rainfall |-> rows[i].rainfall,
                  storage |-> rows[i].storage, release |-> rows[i].release,
                  next_day_storage |-> shift_storage(rows, i)]],
              notna)

\* df.to_csv(filepath, index=False): the rows without their labels.
to_csv(rows) ==
    [i \in DOMAIN rows |->
        [date |-> rows[i].date, inflow |-> rows[i].inflow,
         rainfall |-> rows[i].rainfall, storage |-> rows[i].storage,
         release |-> rows[i].release, next_day_storage |-> rows[i].next_day_storage]]

\* The raw files given to the preprocessing script.  Rows of two dates: plain
\* rows (storage 50 and 60) and rows with a missing or negative rainfall; on
\* one date each, a row with a negative storage, a missing inflow, a negative
\* release.  Dates are present and well-formed in every row.
RawDates == {1, 2}

plain_row(d) ==
    [date |-> d, inflow |-> cell(300), rainfall |-> cell(5), storage |-> cell(50),
     release |-> cell(200)]

RawRows ==
    UNION {{plain_row(d),
            [plain_row(d) EXCEPT !.storage = cell(60)],
            [plain_row(d) EXCEPT !.rainfall = NaN],
            [plain_row(d) EXCEPT !.rainfall = cell(-1)]} : d \in RawDates}
        \cup {[plain_row(1) EXCEPT !.storage = cell(-1)],
              [plain_row(2) EXCEPT !.inflow = NaN],
              [plain_row(1) EXCEPT !.release = cell(-1)]}

RawTables == UNION {[1..n -> RawRows] : n \in 0..MaxRaw}

\* Header lines: the five names as required_columns spells them, then with
\* surrounding whitespace and capitals, with an extra column, without release,
\* with release misspelt, with a space inside inflow.
PlainHeader == <<date_col, inflow_col, rainfall_col, storage_col, release_col>>

Headers ==
    {PlainHeader,
     <<<<" ", "D", "a", "t", "e">>, <<"I", "N", "F", "L", "O", "W", " ">>,
       <<"\t", "R", "a", "i", "n", "f", "a", "l", "l", " ", " ">>,
       <<"S", "t", "o", "r", "a", "g", "e">>, <<"r", "e", "l", "e", "a", "s", "E">>>>,
     <<date_col, inflow_col, rainfall_col, storage_col, release_col,
       <<"N", "o", "t", "e", "s">>>>,
     <<date_col, inflow_col, rainfall_col, storage_col>>,
     <<date_col, inflow_col, rainfall_col, storage_col, <<"r", "e", "l", "a", "s", "e">>>>,
     <<date_col, <<"i", "n", " ", "f", "l", "o", "w">>, rainfall_col, storage_col,
       release_col>>,
     <<<<"D", "A", "T", "E", " ">>, rainfall_col, storage_col, release_col>>}

HeaderTables == {<<plain_row(2), [plain_row(1) EXCEPT !.storage = cell(60)]>>}

RawFiles ==
    {[exists |-> FALSE]}
        \cup {[exists |-> TRUE, cols |-> PlainHeader, rows |-> t] : t \in RawTables}
        \cup {[exists |-> TRUE, cols |-> h, rows |-> t] : h \in Headers, t \in HeaderTables}

\* run_pipeline: df = load_data(RAW_DATA_PATH)
LoadData ==
    /\ pipePc = "start"
    /\ IF rawFile.exists
       THEN /\ pipeDf' = read_csv(rawFile)
            /\ pipePc' = "loaded"
            /\ pipeErr' = pipeErr
       ELSE /\ pipePc' = "failed"
            /\ pipeErr' = "FileNotFoundError"
            /\ pipeDf' = pipeDf
    /\ UNCHANGED <<pipeCleaned, fileVars, trainVars, runVars,
                   evalVars, riskVars, recOut, projVars>>

\* run_pipeline: df = clean_data(df)
CleanData ==
    /\ pipePc = "loaded"
    /\ LET cols == standardize_columns(pipeDf.cols)
       IN  IF missing_columns(cols) # {}
           THEN /\ pipePc' = "failed"
                /\ pipeErr' = "ValueError"
                /\ pipeDf' = [pipeDf EXCEPT !.cols = cols]
                /\ pipeCleaned' = pipeCleaned
           ELSE \E t \in clean_data(pipeDf.rows) :
                    /\ pipeDf' = [cols |-> cols, rows |-> t]
                    /\ pipeCleaned' = t
                    /\ pipePc' = "cleaned"
                    /\ pipeErr' = pipeErr
    /\ UNCHANGED <<fileVars, trainVars, runVars, evalVars, riskVars, recOut, projVars>>

\* run_pipeline: df = feature_engineering(df)
FeatureEngineering ==
    /\ pipePc = "cleaned"
    /\ pipeDf' = [cols |-> Append(pipeDf.cols, target_col),
                  rows |-> feature_engineering(pipeDf.rows)]
    /\ pipePc' = "engineered"
    /\ UNCHANGED <<pipeErr, pipeCleaned, fileVars, trainVars, runVars,
                   evalVars, riskVars, recOut, projVars>>

\* run_pipeline: save_data(df, PROCESSED_DATA_PATH)
SaveData ==
    /\ pipePc = "engineered"
    /\ processedFile' = [exists |-> TRUE, rows |-> to_csv(pipeDf.rows)]
    /\ pipePc' = "saved"
    /\ UNCHANGED <<rawFile, modelFile, pipeErr, pipeDf, pipeCleaned, trainVars, runVars,
                   evalVars, riskVars, recOut, projVars>>

\* One run of the preprocessing script on a raw file.
InitPipeline ==
    /\ InitResults /\ InitProcesses
    /\ rawFile \in RawFiles
    /\ processedFile = [exists |-> FALSE]
    /\ modelFile = [exists |-> FALSE]

NextPipeline ==
    \/ LoadData
    \/ CleanData
    \/ FeatureEngineering
    \/ SaveData

SpecPipeline == InitPipeline /\ [][NextPipeline]_vars

---------------------------------------------------------------------------
\* The training script (src/model_training.py).

\* Mutant: the test set has floor(0.2 n) rows.
n_test_floor(n) == n \div 5

\* train_test_split(test_size=0.2): the test set has ceil(0.2 n) rows.
n_test(n) == (n + 4) \div 5

\* train_test_split: the training set has the remaining rows.
n_train(n) == n - n_test(n)

\* load_processed_data: the exception it raises, or "none".
load_processed_data(file) == IF ~file.exists THEN "FileNotFoundError" ELSE "none"

\* pd.read_csv of the processed file: its rows, labelled 0, 1, ...
read_processed_csv(file) ==
    [i \in DOMAIN file.rows |->
        [index |-> i - 1, date |-> file.rows[i].date,
         inflow |-> file.rows[i].inflow, rainfall |-> file.rows[i].rainfall,
         storage |-> file.rows[i].storage, release |-> file.rows[i].release,
         next_day_storage |-> file.rows[i].next_day_storage]]

\* The processed files given to the training script: what run_pipeline saves
\* from a raw file of valid rows of consecutive dates, storage 50 or 60.
StorageSeries == UNION {[1..n -> {50, 60}] : n \in 0..(MaxTrainRows + 1)}

series_file(s) ==
    [exists |-> TRUE, cols |-> PlainHeader,
     rows |-> [i \in DOMAIN s |-> [plain_row(i) EXCEPT !.storage = cell(s[i])]]]

TrainingFiles ==
    {[exists |-> FALSE]}
        \cup {[exists |-> TRUE,
               rows |-> to_csv(feature_engineering(read_csv(series_file(s)).rows))] :
                 s \in StorageSeries}

\* run_training_pipeline: df = load_processed_data(PROCESSED_DATA_PATH)
LoadProcessedData ==
    /\ trainPc = "start"
    /\ IF load_processed_data(processedFile) = "none"
       THEN /\ trainDf' = read_processed_csv(processedFile)
            /\ trainPc' = "loaded"
            /\ trainErr' = trainErr
       ELSE /\ trainPc' = "failed"
            /\ trainErr' = load_processed_data(processedFile)
            /\ trainDf' = trainDf
    /\ UNCHANGED <<trainSplit, fileVars, pipeVars, runVars,
                   evalVars, riskVars, recOut, projVars>>

\* run_training_pipeline: model, mae, rmse, r2 = train_model(df).  The split
\* raises ValueError when it leaves the training set empty.
TrainModel ==
    /\ trainPc = "loaded"
    /\ LET n == Len(trainDf)
       IN  IF n_train(n) = 0
           THEN /\ trainPc' = "failed"
                /\ trainErr' = "ValueError"
                /\ trainSplit' = trainSplit
           ELSE /\ trainSplit' = [train |-> SubSeq(trainDf, 1, n_train(n)),
                                  test |-> SubSeq(trainDf, n_train(n) + 1, n)]
                /\ trainPc' = "trained"
                /\ trainErr' = trainErr
    /\ UNCHANGED <<trainDf, fileVars, pipeVars, runVars, evalVars, riskVars, recOut, projVars>>

\* run_training_pipeline: save_model(model, MODEL_SAVE_PATH)
SaveModel ==
    /\ trainPc = "trained"
    /\ modelFile' = [exists |-> TRUE]
    /\ trainPc' = "done"
    /\ UNCHANGED <<rawFile, processedFile, trainErr, trainDf, trainSplit, pipeVars, runVars,
                   evalVars, riskVars, recOut, projVars>>

\* One run of the training script on a processed file.
InitTraining ==
    /\ InitResults /\ InitProcesses
    /\ rawFile = [exists |-> FALSE]
    /\ processedFile \in TrainingFiles
    /\ modelFile = [exists |-> FALSE]

NextTraining ==
    \/ LoadProcessedData
    \/ TrainModel
    \/ SaveModel

SpecTraining == InitTraining /\ [][NextTraining]_vars

---------------------------------------------------------------------------
\* The four scripts run against the same files (phases 1 to 4).

\* Mutant: load_model does not look for the file.
load_model_unchecked(file) == "none"

\* optimization_engine.load_model, risk_engine.load_model: the exception it
\* raises, or "none".
load_model(file) == IF ~file.exists THEN "FileNotFoundError" ELSE "none"

\* optimization_engine.load_data, risk_engine.load_data: pd.read_csv raises
\* FileNotFoundError on a path that does not exist.
load_data(file) == IF ~file.exists THEN "FileNotFoundError" ELSE "none"

\* optimization_engine.run_optimization: model = load_model(MODEL_PATH)
OptimizationLoadModel ==
    /\ optPc = "start"
    /\ optErr' = load_model(modelFile)
    /\ optPc' = IF load_model(modelFile) = "none" THEN "model_loaded" ELSE "failed"
    /\ UNCHANGED <<riskPc, riskErr, fileVars, pipeVars, trainVars,
                   evalVars, riskVars, recOut, projVars>>

\* optimization_engine.run_optimization: df = load_data(DATA_PATH), then the
\* simulation and the score (their values are those of RunOptimization).
OptimizationRun ==
    /\ optPc = "model_loaded"
    /\ optErr' = load_data(processedFile)
    /\ optPc' = IF load_data(processedFile) = "none" THEN "done" ELSE "failed"
    /\ UNCHANGED <<riskPc, riskErr, fileVars, pipeVars, trainVars,
                   evalVars, riskVars, recOut, projVars>>

\* risk_engine.run_risk_detection: model = load_model(MODEL_PATH)
RiskLoadModel ==
    /\ riskPc = "start"
    /\ riskErr' = load_model(modelFile)
    /\ riskPc' = IF load_model(modelFile) = "none" THEN "model_loaded" ELSE "failed"
    /\ UNCHANGED <<optPc, optErr, fileVars, pipeVars, trainVars,
                   evalVars, riskVars, recOut, projVars>>

\* risk_engine.run_risk_detection: df = load_data(DATA_PATH), then the report
\* (its categories are those of ClassifyRisk).
RiskRun ==
    /\ riskPc = "model_loaded"
    /\ riskErr' = load_data(processedFile)
    /\ riskPc' = IF load_data(processedFile) = "none" THEN "done" ELSE "failed"
    /\ UNCHANGED <<optPc, optErr, fileVars, pipeVars, trainVars,
                   evalVars, riskVars, recOut, projVars>>

\* A script that has ended is run again.
StartPipeline ==
    /\ pipePc \in {"saved", "failed"}
    /\ pipePc' = "start"
    /\ pipeErr' = "none"
    /\ UNCHANGED <<pipeDf, pipeCleaned, fileVars, trainVars, runVars,
                   evalVars, riskVars, recOut, projVars>>

StartTraining ==
    /\ trainPc \in {"done", "failed"}
    /\ trainPc' = "start"
    /\ trainErr' = "none"
    /\ UNCHANGED <<trainDf, trainSplit, fileVars, pipeVars, runVars,
                   evalVars, riskVars, recOut, projVars>>

StartOptimization ==
    /\ optPc \in {"done", "failed"}
    /\ optPc' = "start"
    /\ optErr' = "none"
    /\ UNCHANGED <<riskPc, riskErr, fileVars, pipeVars, trainVars,
                   evalVars, riskVars, recOut, projVars>>

StartRiskDetection ==
    /\ riskPc \in {"done", "failed"}
    /\ riskPc' = "start"
    /\ riskErr' = "none"
    /\ UNCHANGED <<optPc, optErr, fileVars, pipeVars, trainVars,
                   evalVars, riskVars, recOut, projVars>>

\* The raw files of the phase runs: no file, three valid rows given in
\* decreasing date order, one valid row, and a header without release.
PhaseRawFiles ==
    {[exists |-> FALSE],
     [exists |-> TRUE, cols |-> PlainHeader,
      rows |-> <<plain_row(3), [plain_row(2) EXCEPT !.storage = cell(60)], plain_row(1)>>],
     [exists |-> TRUE, cols |-> PlainHeader, rows |-> <<plain_row(1)>>],
     [exists |-> TRUE, cols |-> <<date_col, inflow_col, rainfall_col, storage_col>>,
      rows |-> <<plain_row(1), plain_row(2), plain_row(3)>>]}

\* The four scripts, run in any order and any number of times.
InitPhases ==
    /\ InitResults /\ InitProcesses
    /\ rawFile \in PhaseRawFiles
    /\ processedFile = [exists |-> FALSE]
    /\ modelFile = [exists |-> FALSE]

NextPhases ==
    \/ LoadData \/ CleanData \/ FeatureEngineering \/ SaveData
    \/ LoadProcessedData \/ TrainModel \/ SaveModel
    \/ OptimizationLoadModel \/ OptimizationRun
    \/ RiskLoadModel \/ RiskRun
    \/ StartPipeline \/ StartTraining \/ StartOptimization \/ StartRiskDetection

SpecPhases == InitPhases /\ [][NextPhases]_vars

---------------------------------------------------------------------------
\* Properties.

RiskCategories == {"FLOOD RISK", "DROUGHT RISK", "SAFE"}

SameCall(a, b) ==
    a.predicted_storage = b.predicted_storage /\ a.rainfall = b.rainfall

\* C1: classify_risk is total and deterministic: every call returns one of
\* FLOOD, DROUGHT, SAFE, two calls on the same arguments return the same
\* category, and (96, 10) is FLOOD, (20, 0) is DROUGHT, (60, 50) is SAFE.
C1_ClassifyTotalDeterministic ==
    /\ riskLast.done => riskLast.risk \in RiskCategories
    /\ (riskLast.done /\ riskPrev.done /\ SameCall(riskLast, riskPrev))
          => riskLast.risk = riskPrev.risk
    /\ (riskLast.done /\ riskLast.predicted_storage = 96 * Micro
                      /\ riskLast.rainfall = 10 * Micro)
          => riskLast.risk = "FLOOD RISK"
    /\ (riskLast.done /\ riskLast.predicted_storage = 20 * Micro
                      /\ riskLast.rainfall = 0)
          => riskLast.risk = "DROUGHT RISK"
    /\ (riskLast.done /\ riskLast.predicted_storage = 60 * Micro
                      /\ riskLast.rainfall = 50 * Micro)
          => riskLast.risk = "SAFE"

\* classify_risk(20, 0) was called twice in a row.
C1_Witness ==
    /\ riskLast.done /\ riskPrev.done
    /\ riskLast.predicted_storage = 20 * Micro /\ riskLast.rainfall = 0
    /\ SameCall(riskLast, riskPrev)

\* C2: classify_risk returns FLOOD exactly when predicted storage is strictly
\* greater than 95, whatever the rainfall.
C2_FloodIffAbove95 ==
    riskLast.done =>
        (riskLast.risk = "FLOOD RISK" <=> riskLast.predicted_storage > 95 * Micro)

\* Storage 95 with no rain was classified right after a storage just above 95
\* with no rain.
C2_Witness ==
    /\ riskLast.done /\ riskPrev.done
    /\ riskLast.predicted_storage = 95 * Micro /\ riskLast.rainfall = 0
    /\ riskLast.risk # "FLOOD RISK"
    /\ riskPrev.predicted_storage = 95 * Micro + 1 /\ riskPrev.rainfall = 0
    /\ riskPrev.risk = "FLOOD RISK"

\* C3: classify_risk returns DROUGHT exactly when predicted storage is strictly
\* below 25 and rainfall strictly below 5; storage below 25 with rainfall of 5
\* or more, and storage in [25, 95] with any rainfall, is SAFE.
C3_DroughtIffLowAndDry ==
    riskLast.done =>
        /\ riskLast.risk = "DROUGHT RISK" <=>
              (riskLast.predicted_storage < 25 * Micro /\ riskLast.rainfall < 5 * Micro)
        /\ (riskLast.predicted_storage < 25 * Micro /\ riskLast.rainfall >= 5 * Micro)
              => riskLast.risk = "SAFE"
        /\ (riskLast.predicted_storage >= 25 * Micro
              /\ riskLast.predicted_storage <= 95 * Micro)
              => riskLast.risk = "SAFE"

\* A storage just below 25 with rainfall exactly 5 was classified SAFE right
\* after storage exactly 25 with no rain.
C3_Witness ==
    /\ riskLast.done /\ riskPrev.done
    /\ riskLast.predicted_storage = 25 * Micro - 1 /\ riskLast.rainfall = 5 * Micro
    /\ riskLast.risk = "SAFE"
    /\ riskPrev.predicted_storage = 25 * Micro /\ riskPrev.rainfall = 0
    /\ riskPrev.risk = "SAFE"

\* C4: a storage in (85, 95] is classified as an elevated flood watch, distinct
\* from SAFE: classify_risk never reports SAFE for a storage in (85, 95].
C4_ElevatedWatchNotSafe ==
    (riskLast.done /\ riskLast.predicted_storage > 85 * Micro
                   /\ riskLast.predicted_storage <= 95 * Micro)
        => riskLast.risk # "SAFE"

\* No prediction of the dataset is above 95.
NoBaselineOverflow == \A i \in DOMAIN predictions : predictions[i].v <= 95 * Micro

\* C5: the decision-effectiveness score is 100 whenever the baseline
\* predictions contain no value above 95, in evaluation.decision_effectiveness
\* and in optimization_engine.calculate_effectiveness, and the division by the
\* baseline count is not executed then.
C5_ScoreHundredOnEmptyBaseline ==
    /\ (evalOut.done /\ NoBaselineOverflow)
          => (evalOut.score = 100 * Centi /\ ~evalOut.divided)
    /\ (optOut.done /\ NoBaselineOverflow)
          => (optOut.score = 100 * Centi /\ ~optOut.divided)

\* Both scores were computed on a dataset with no prediction above 95 whose
\* adjusted storage overflows.
C5_Witness ==
    /\ evalOut.done /\ optOut.done /\ NoBaselineOverflow
    /\ evalOut.optimized_overflow > 0
    /\ optOut.optimized_overflow > 0

\* C6: in evaluation.decision_effectiveness the release used for a row is 1.5
\* times its historical release when its prediction is strictly above 95, and
\* the historical release otherwise.
C6_ReleaseScaledAbove95 ==
    evalOut.done =>
        \A i \in DOMAIN df :
            IF predictions[i].v > 95 * Micro
            THEN 2 * evalOut.release[i].v = 3 * df[i].release
            ELSE evalOut.release[i].v = df[i].release

\* decision_effectiveness ran on a row predicted 96 followed by a row predicted 95.
C6_Witness ==
    /\ evalOut.done /\ Len(df) = 2
    /\ predictions[1].v = 96 * Micro /\ predictions[2].v = 95 * Micro
    /\ df[1].release > 0 /\ df[2].release > 0

\* The number of rows whose storage, simulated under the unadjusted release,
\* is above 95.
SimulatedBaselineOverflow ==
    run_sum({i \in DOMAIN df :
        df[i].storage + df[i].inflow - df[i].release - 150000 > 95 * Micro}, df)

\* The number of rows whose prediction is above 95.
PredictedOverflow ==
    run_sum({i \in DOMAIN df : predictions[i].v > 95 * Micro}, df)

\* C7, as claimed: the baseline count of the decision-effectiveness score is the
\* number of rows whose storage simulated under the unadjusted release exceeds
\* 95, not a count of raw model predictions.
C7_BaselineIsSimulated ==
    /\ evalOut.done => evalOut.baseline_overflow = SimulatedBaselineOverflow
    /\ optOut.done => optOut.baseline_overflow = SimulatedBaselineOverflow

\* C7, amended: the baseline count is the number of rows whose model prediction
\* exceeds 95; the count it is compared with is the number of rows whose
\* storage simulated under the adjusted release exceeds 95.
C7_BaselineIsPredicted ==
    /\ evalOut.done =>
          /\ evalOut.baseline_overflow = PredictedOverflow
          /\ evalOut.optimized_overflow =
                run_sum({i \in DOMAIN df :
                    df[i].storage + df[i].inflow - evalOut.release[i].v - 150000
                        > 95 * Micro}, df)
    /\ optOut.done =>
          /\ optOut.baseline_overflow = PredictedOverflow
          /\ optOut.optimized_overflow =
                run_sum({i \in DOMAIN df :
                    df[i].storage + df[i].inflow - optOut.release[i].v - 150000
                        > 95 * Micro}, df)

\* Both scores were computed on a dataset where the predictions above 95 and
\* the simulated storages above 95 differ in number.
C7_Witness ==
    /\ evalOut.done /\ optOut.done
    /\ PredictedOverflow # SimulatedBaselineOverflow
    /\ PredictedOverflow > 0

\* The flood flags of entry i agree.
Agree(i) == (df[i].next_day_storage > 95 * Micro) = (predictions[i].v > 95 * Micro)
AgreeingRows == run_sum({i \in DOMAIN df : Agree(i)}, df)
AllAgree == \A i \in DOMAIN df : Agree(i)
AllDisagree == \A i \in DOMAIN df : ~Agree(i)

\* The accuracy returned is within half a hundredth of 100 * correct / len(df).
AccuracyRounded ==
    LET e == accOut.accuracy * len(df) - AgreeingRows * 100 * Centi
    IN  -len(df) <= 2 * e /\ 2 * e <= len(df)

\* C8, as claimed: the risk detection accuracy is 100 times the fraction of rows
\* whose flood flags agree, lies in [0, 100], is 100 exactly when the flags
\* agree on every row and 0 exactly when they disagree on every row.
C8_AccuracyExact ==
    accOut.done =>
        /\ AccuracyRounded
        /\ accOut.accuracy >= 0 /\ accOut.accuracy <= 100 * Centi
        /\ accOut.accuracy = 100 * Centi <=> AllAgree
        /\ accOut.accuracy = 0 <=> AllDisagree

\* C8, amended: the accuracy is 100 times the fraction of agreeing rows rounded
\* to two decimals, lies in [0, 100], is 100 when the flags agree on every row
\* and 0 when they disagree on every row; a result of 100 (of 0) says that at
\* most one row in 20000 disagrees (agrees), which for fewer than 20000 rows
\* means every row.
C8_AccuracyRounded ==
    accOut.done =>
        /\ AccuracyRounded
        /\ accOut.accuracy >= 0 /\ accOut.accuracy <= 100 * Centi
        /\ AllAgree => accOut.accuracy = 100 * Centi
        /\ AllDisagree => accOut.accuracy = 0
        /\ accOut.accuracy = 100 * Centi => 20000 * (len(df) - AgreeingRows) <= len(df)
        /\ accOut.accuracy = 0 => 20000 * AgreeingRows <= len(df)
        /\ len(df) < 20000 => (accOut.accuracy = 100 * Centi <=> AllAgree)
        /\ len(df) < 20000 => (accOut.accuracy = 0 <=> AllDisagree)

\* An accuracy of 100 was returned for a dataset with a disagreeing row.
C8_Witness ==
    /\ accOut.done
    /\ accOut.accuracy = 100 * Centi
    /\ ~AllAgree

\* capacity = 100, in the unit of a release
Capacity == 100 * 1000

\* C9, as claimed: for a current release in [0, capacity], recommend_release
\* returns a value in [0, capacity].
C9_ReleaseWithinCapacity ==
    (recOut.done /\ recOut.current_release >= 0 /\ recOut.current_release <= Capacity)
        => (recOut.new_release >= 0 /\ recOut.new_release <= Capacity)

\* C9, amended: for a current release in [0, capacity], recommend_release
\* returns a value in [0, 1.5 * capacity], and a value in [0, capacity] when
\* the predicted storage is at most 80.
C9_ReleaseWithinOneAndAHalfCapacity ==
    (recOut.done /\ recOut.current_release >= 0 /\ recOut.current_release <= Capacity)
        => /\ recOut.new_release >= 0
           /\ 2 * recOut.new_release <= 3 * Capacity
           /\ recOut.predicted_storage <= 80 * Micro => recOut.new_release <= Capacity

\* recommend_release(96, 100) returned 150.
C9_Witness ==
    /\ recOut.done
    /\ recOut.predicted_storage = 96 * Micro
    /\ recOut.current_release = Capacity
    /\ recOut.new_release = 150 * 1000

\* The storage the i-th iteration of the projection starts from.
ProjBefore(i) == IF i = 1 THEN projStart ELSE projHistory[i - 1]

\* C10: every storage produced by the forward step simulation lies in
\* [0, 100]: every element of the trajectory of simulate_storage_projection and
\* every adjusted storage of simulate_decision_effect; the projection clamps at
\* every step, and the next step starts from the clamped value.
C10_SimulatedStorageWithinCapacity ==
    /\ \A i \in DOMAIN projHistory :
          /\ projHistory[i] >= 0 /\ projHistory[i] <= 100 * Micro
          /\ LET raw == ProjBefore(i) + projInflow[i] - projRelease - 150000
             IN  projHistory[i] = IF raw < 0 THEN 0
                                  ELSE IF raw > 100 * Micro THEN 100 * Micro
                                  ELSE raw
    /\ projHistory # << >> => projStorage = projHistory[Len(projHistory)]
    /\ optOut.done =>
          \A i \in DOMAIN optOut.optimized :
              optOut.optimized[i].v >= 0 /\ optOut.optimized[i].v <= 100 * Micro

\* A projection returned whose first step was clamped at 100 and whose later
\* steps went on from 100, not from the unclamped value.
C10_Witness ==
    /\ projPc = "returned"
    /\ Len(projHistory) = 3
    /\ projStart > 100 * Micro
    /\ projHistory[1] = 100 * Micro
    /\ projHistory[2] < 100 * Micro /\ projHistory[2] > 0
    /\ projHistory[3] < projHistory[2]

\* The multiplier of each predicted-storage tier, in tenths.
TierFactor(p) ==
    IF p > 95 * Micro THEN 15
    ELSE IF p > 80 * Micro THEN 12
    ELSE IF p >= 60 * Micro THEN 10
    ELSE IF p >= 40 * Micro THEN 8
    ELSE 6

\* The recommendation does not decrease when the predicted storage grows.
RecommendationMonotone ==
    \A p \in RecStorage :
        p >= recOut.predicted_storage =>
            recommend_release(p, recOut.current_release, recOut.tie) >= recOut.new_release

\* C20, as claimed: recommend_release scales the current release by the factor
\* of the predicted-storage tier (1.5, 1.2, 1.0, 0.8, 0.6); for a positive
\* current release the recommendation exceeds it only when predicted storage is
\* above 80, is below it only when predicted storage is below 60, and is
\* non-decreasing in predicted storage.
C20_ScaledByTier ==
    (recOut.done /\ recOut.current_release > 0) =>
        /\ 10 * recOut.new_release = recOut.current_release * TierFactor(recOut.predicted_storage)
        /\ recOut.new_release > recOut.current_release
              => recOut.predicted_storage > 80 * Micro
        /\ recOut.new_release < recOut.current_release
              => recOut.predicted_storage < 60 * Micro
        /\ RecommendationMonotone

\* C20, amended: recommend_release returns the current release times the factor
\* of the tier, rounded to two decimals; for a positive current release of at
\* most two decimals the recommendation exceeds it only when predicted storage
\* is above 80 and is below it only when predicted storage is below 60; for
\* every positive current release it is non-decreasing in predicted storage.
C20_ScaledByTierRounded ==
    (recOut.done /\ recOut.current_release > 0) =>
        /\ LET e == 10 * recOut.new_release
                      - recOut.current_release * TierFactor(recOut.predicted_storage)
           IN  -50 <= e /\ e <= 50
        /\ recOut.new_release % 10 = 0
        /\ (recOut.current_release % 10 = 0 /\ recOut.new_release > recOut.current_release)
              => recOut.predicted_storage > 80 * Micro
        /\ (recOut.current_release % 10 = 0 /\ recOut.new_release < recOut.current_release)
              => recOut.predicted_storage < 60 * Micro
        /\ RecommendationMonotone

\* recommend_release(60, 0.006) returned 0.01: more than the current release,
\* in the tier of factor 1.0.
C20_Witness ==
    /\ recOut.done
    /\ recOut.predicted_storage = 60 * Micro
    /\ recOut.current_release = 6
    /\ recOut.new_release = 10

\* clean_data has returned its table to run_pipeline.
CleanReturned == pipePc \in {"cleaned", "engineered", "saved"}

\* feature_engineering has returned its table to run_pipeline.
FeaturesReturned == pipePc \in {"engineered", "saved"}

\* C11: for every table of n >= 1 rows produced by clean_data,
\* feature_engineering returns exactly n - 1 rows, and the only row dropped is
\* the last one.
C11_OnlyLastRowDropped ==
    (FeaturesReturned /\ Len(pipeCleaned) >= 1) =>
        /\ Len(pipeDf.rows) = Len(pipeCleaned) - 1
        /\ \A i \in DOMAIN pipeDf.rows : pipeDf.rows[i].index = pipeCleaned[i].index

\* The rows are in non-decreasing date order.
DateOrdered(rows) == \A i \in 1..(Len(rows) - 1) : rows[i].date <= rows[i + 1].date

\* C12: for every row kept by feature_engineering in run_pipeline,
\* next_day_storage equals the storage of the row that immediately follows it
\* in the cleaned table, which is in date order.
C12_TargetIsNextStorage ==
    FeaturesReturned =>
        /\ DateOrdered(pipeCleaned)
        /\ \A k \in DOMAIN pipeDf.rows :
              \E i \in 1..(Len(pipeCleaned) - 1) :
                  /\ pipeCleaned[i].index = pipeDf.rows[k].index
                  /\ pipeDf.rows[k].next_day_storage = pipeCleaned[i + 1].storage

\* A raw file given in decreasing date order was processed to two rows with
\* different targets.
C12_Witness ==
    /\ pipePc = "saved"
    /\ Len(rawFile.rows) = 3
    /\ rawFile.rows[1].date > rawFile.rows[2].date
    /\ Len(pipeDf.rows) = 2
    /\ pipeDf.rows[1].next_day_storage # pipeDf.rows[2].next_day_storage

\* C13: when the history has fewer than 12 rows the pipeline signals an error
\* and never proceeds: run_pipeline saves no processed dataset from it.
C13_ShortHistoryRejected ==
    /\ pipePc = "saved" => Len(pipeCleaned) >= 12
    /\ processedFile.exists => Len(processedFile.rows) >= 12

\* The names of the raw header, stripped and lower-cased.
HeaderNames == {lower(strip(rawFile.cols[i])) : i \in DOMAIN rawFile.cols}

RequiredNames == {date_col, inflow_col, rainfall_col, storage_col, release_col}

MissingRequired ==
    /\ rawFile.exists
    /\ LET names == HeaderNames IN \E c \in RequiredNames : c \notin names

\* C14: if, after column names are stripped and lower-cased, any of date,
\* inflow, rainfall, storage, release is absent, clean_data raises an error and
\* run_pipeline reaches neither feature_engineering nor save_data: no processed
\* file is written.
C14_MissingColumnIsFatal ==
    MissingRequired =>
        /\ pipePc \in {"start", "loaded", "failed"}
        /\ pipePc = "failed" => pipeErr = "ValueError"
        /\ ~processedFile.exists

\* A header with a misspelt or absent column ended the run with ValueError.
C14_Witness ==
    /\ MissingRequired
    /\ Len(rawFile.cols) = 5
    /\ pipePc = "failed"
    /\ pipeErr = "ValueError"

\* The rows of a table as a set of value tuples.
RowSet(rows) == {values(rows[i]) : i \in DOMAIN rows}

\* Every ordering of the rows of the raw file.
Orderings(rows) ==
    LET n == Len(rows)
    IN  {[i \in 1..n |-> rows[f[i]]] :
            f \in {g \in [1..n -> 1..n] : \A i, j \in 1..n : i # j => g[i] # g[j]}}

\* C15: for every ordering of the input rows the rows clean_data returns are in
\* non-decreasing date order, and the set of rows returned does not depend on
\* the input order.
C15_SortedAndOrderIndependent ==
    CleanReturned =>
        /\ DateOrdered(pipeCleaned)
        /\ \A o \in Orderings(read_csv(rawFile).rows) :
              \A t \in clean_data(o) : RowSet(t) = RowSet(pipeCleaned)

\* C16: the table returned by clean_data contains no two rows with the same date.
C16_UniqueByDate ==
    CleanReturned =>
        \A i, j \in DOMAIN pipeCleaned :
            i # j => pipeCleaned[i].date # pipeCleaned[j].date

\* C17: after clean_data every retained record has storage >= 0, rainfall >= 0,
\* inflow >= 0 and release >= 0.
C17_NonNegative ==
    CleanReturned =>
        \A i \in DOMAIN pipeCleaned :
            /\ ge0(pipeCleaned[i].storage)
            /\ ge0(pipeCleaned[i].rainfall)
            /\ ge0(pipeCleaned[i].inflow)
            /\ ge0(pipeCleaned[i].release)

\* C18: train_model splits without shuffling: for a dataset of n rows the test
\* set is the last ceil(0.2 n) rows and the training set is the rows before
\* them, every training row precedes every test row and no row is in both.
C18_TimeOrderedSplit ==
    trainPc \in {"trained", "done"} =>
        LET n == Len(trainDf)
            k == Len(trainSplit.test)
        IN  /\ 5 * k >= n /\ 5 * (k - 1) < n
            /\ trainSplit.test = SubSeq(trainDf, n - k + 1, n)
            /\ trainSplit.train = SubSeq(trainDf, 1, n - k)
            /\ \A a \in DOMAIN trainSplit.train, b \in DOMAIN trainSplit.test :
                  trainSplit.train[a].index < trainSplit.test[b].index

\* A dataset of 6 rows was split into 4 training rows and 2 test rows.
C18_Witness ==
    /\ trainPc = "done"
    /\ Len(trainDf) = 6
    /\ Len(trainSplit.train) = 4
    /\ Len(trainSplit.test) = 2

\* A script leaves its first statement.
TrainingLoads == trainPc = "start" /\ trainPc' # "start"
OptimizationLoads == optPc = "start" /\ optPc' # "start"
RiskDetectionLoads == riskPc = "start" /\ riskPc' # "start"

\* C19: in any sequence of phase runs, training fails with FileNotFoundError
\* unless preprocessing has already saved the processed dataset, optimization
\* and risk detection fail with FileNotFoundError unless training has already
\* saved the model, and no later phase completes before the phase it depends on
\* has completed: the processed dataset appears only when preprocessing
\* completes, the model only when training completes.
C19_PhasesOrdered ==
    [][ /\ (TrainingLoads /\ ~processedFile.exists)
              => (trainPc' = "failed" /\ trainErr' = "FileNotFoundError")
        /\ (OptimizationLoads /\ ~modelFile.exists)
              => (optPc' = "failed" /\ optErr' = "FileNotFoundError")
        /\ (RiskDetectionLoads /\ ~modelFile.exists)
              => (riskPc' = "failed" /\ riskErr' = "FileNotFoundError")
        /\ (~processedFile.exists /\ processedFile'.exists) => pipePc' = "saved"
        /\ (~modelFile.exists /\ modelFile'.exists) => trainPc' = "done"
        /\ trainPc' = "done" => processedFile'.exists
        /\ optPc' = "done" => modelFile'.exists
        /\ riskPc' = "done" => modelFile'.exists
        /\ modelFile'.exists => processedFile'.exists
      ]_vars

\* Risk detection was run too early and failed; after preprocessing and
\* training, optimization completed.
C19_Witness ==
    /\ riskPc = "failed" /\ riskErr = "FileNotFoundError"
    /\ pipePc = "saved"
    /\ trainPc = "done"
    /\ optPc = "done"

\* C21: days_to_critical_low is set only if some projected storage value is at
\* or below 20, and when every projected value stays above 20 the dashboard
\* reports "Low levels unlikely".
C21_CriticalLowOnlyWhenLow ==
    projAlerts.done =>
        /\ projAlerts.days_to_critical_low.defined
              => \E i \in DOMAIN projHistory : projHistory[i] <= 20 * Micro
        /\ (\A i \in DOMAIN projHistory : projHistory[i] > 20 * Micro)
              => projAlerts.low_alert = "Low levels unlikely"

\* A value returned for a threshold is the 1-based position of the first
\* projected value at or above it, and None when no value reaches it.
FirstReached(d, threshold) ==
    IF d.defined
    THEN /\ d.v \in DOMAIN projHistory
         /\ projHistory[d.v] >= threshold
         /\ \A j \in 1..(d.v - 1) : projHistory[j] < threshold
    ELSE \A j \in DOMAIN projHistory : projHistory[j] < threshold

\* C22: calculate_days_to_threshold returns the 1-based position of the first
\* projected value at or above the threshold and None when no value reaches
\* it; if days_to_full is defined then days_to_critical_high is defined and is
\* less than or equal to days_to_full.
C22_FirstDayAtOrAboveThreshold ==
    projAlerts.done =>
        /\ FirstReached(projAlerts.days_to_full, 100 * Micro)
        /\ FirstReached(projAlerts.days_to_critical_high, 95 * Micro)
        /\ FirstReached(projAlerts.days_to_critical_low, 20 * Micro)
        /\ projAlerts.days_to_full.defined
              => /\ projAlerts.days_to_critical_high.defined
                 /\ projAlerts.days_to_critical_high.v <= projAlerts.days_to_full.v

\* A projection from 99.9 reached 95 on day 1 and 100 (clamped) on day 3.
C22_Witness ==
    /\ projAlerts.done
    /\ projAlerts.days_to_critical_high = days(1)
    /\ projAlerts.days_to_full = days(3)
    /\ projHistory[3] = 100 * Micro

\* C23: for every model output and every dataset, evaluation.decision_effectiveness
\* returns the same score as optimization_engine.calculate_effectiveness applied
\* to the result of simulate_decision_effect.  (Equal counts are divided and
\* rounded by the same expression in both, so they give the same score.)
C23_ScoresAgree ==
    (evalOut.done /\ optOut.done) =>
        \/ evalOut.score = optOut.score
        \/ /\ evalOut.baseline_overflow = optOut.baseline_overflow
           /\ evalOut.optimized_overflow = optOut.optimized_overflow

===========================================================================
